---- MODULE Spec2Model ----
(***************************************************************************)
(* Model of the real-time zoom compositor of react-video-editor:           *)
(* components/video-preview.tsx (render loop, effect lookup, zoom          *)
(* parameter resolver, temporal smoother).                                 *)
(*                                                                         *)
(* Numbers.  Times are integers in hundredths of a second (the seek        *)
(* slider's step, video-preview.tsx:292).  Zoom levels, centres, progress  *)
(* and blend factors are exact rationals [n, d] in lowest terms with       *)
(* d > 0; the JavaScript doubles of the source are modelled by the real    *)
(* numbers they approximate.                                               *)
(***************************************************************************)
EXTENDS Integers, Sequences, FiniteSets, TLC

VARIABLES
    mounted,            \* the VideoPreview component is mounted
    zoomEffects,        \* the zoomEffects prop (the editor's collection)
    videoTime,          \* video.currentTime
    paused,             \* video.paused
    contextRef,         \* contextRef.current is non-null
    animationRef,       \* animationRef.current (0 = undefined)
    pending,            \* the host's list of scheduled frame callbacks
    nextHandle,         \* the host's requestAnimationFrame handle counter
    clock,              \* the host's frame timestamp
    lastTimeRef,        \* lastTimeRef.current
    lastVideoTimeRef,   \* lastVideoTimeRef.current
    frameCountRef,      \* frameCountRef.current
    renderStats,        \* renderStats.fps
    prevZoomStateRef,   \* prevZoomStateRef.current (Null or a zoom state)
    canvas,             \* what the canvas shows (the last draw)
    frame,              \* the locals of the last run of renderFrame
    probe,              \* a direct call of one of the pure helpers
    editor,             \* the VideoEditor component's state cells
    timeline            \* the Timeline component's state cells

vars == <<mounted, zoomEffects, videoTime, paused, contextRef, animationRef,
          pending, nextHandle, clock, lastTimeRef, lastVideoTimeRef,
          frameCountRef, renderStats, prevZoomStateRef, canvas, frame, probe,
          editor, timeline>>

loopVars == <<mounted, zoomEffects, videoTime, paused, contextRef, animationRef,
              pending, nextHandle, clock, lastTimeRef, lastVideoTimeRef,
              frameCountRef, renderStats, prevZoomStateRef, canvas, frame>>

(***************************************************************************)
(* Bounds                                                                  *)
(***************************************************************************)
\* requestAnimationFrame is called at most MaxHandle times in a behaviour.
MaxHandle == 4

(***************************************************************************)
(* Exact rational arithmetic                                               *)
(***************************************************************************)
Abs(x) == IF x < 0 THEN -x ELSE x

RECURSIVE GCD(_, _)
GCD(a, b) == IF b = 0 THEN a ELSE GCD(b, a % b)

\* n/d in lowest terms, d > 0
Rat(n, d) ==
    LET g == GCD(Abs(n), d)
    IN  [n |-> n \div g, d |-> d \div g]

R(n) == [n |-> n, d |-> 1]

LCM(a, b) == (a \div GCD(a, b)) * b

\* numerator of x over the denominator L, L a multiple of x.d
Over(x, L) == x.n * (L \div x.d)

RAdd(a, b) == LET L == LCM(a.d, b.d) IN Rat(Over(a, L) + Over(b, L), L)
RSub(a, b) == LET L == LCM(a.d, b.d) IN Rat(Over(a, L) - Over(b, L), L)
RMul(a, b) ==
    LET g1 == GCD(Abs(a.n), b.d)
        g2 == GCD(Abs(b.n), a.d)
    IN  IF a.n = 0 \/ b.n = 0 THEN R(0)
        ELSE Rat((a.n \div g1) * (b.n \div g2), (a.d \div g2) * (b.d \div g1))
RLt(a, b)  == LET L == LCM(a.d, b.d) IN Over(a, L) < Over(b, L)
RLeq(a, b) == LET L == LCM(a.d, b.d) IN Over(a, L) <= Over(b, L)
RCube(a)   == RMul(a, RMul(a, a))

Half == Rat(1, 2)

Null == [isNull |-> TRUE]

(***************************************************************************)
(* Inputs                                                                  *)
(***************************************************************************)
\* canvas.width / canvas.height, copied from the video's native size
canvasSize == [width |-> 640, height |-> 360]

Effect(id, start, dur, level, cx, cy, style) ==
    [id |-> id, startTime |-> start, duration |-> dur, level |-> level,
     centerX |-> cx, centerY |-> cy, zoomStyle |-> style]

\* zoomStyle "" stands for an effect that carries no zoomStyle
EffA == Effect("a", 21, 50, R(2), Rat(1, 4), Rat(3, 4), "in-out")
EffB == Effect("b", 46, 25, Rat(3, 2), Rat(1, 2), Rat(1, 2), "in-only")

\* the collections the editor hands to the preview
Collections == { <<>>, <<EffB>>, <<EffB, EffA>> }

\* the video clock values the loop observes
Times == {0, 10, 21, 46, 71, 72}

(***************************************************************************)
(* Pure helpers of the effect body                                         *)
(***************************************************************************)
\* easeInOutCubic, had the second half added the cubic term
easeInOutCubicSignSlip(t) ==
    IF RLt(t, Half)
    THEN RMul(R(4), RCube(t))
    ELSE RAdd(R(1), RMul(RCube(RAdd(RMul(R(-2), t), R(2))), Half))

\* t < 0.5 ? 4 * t * t * t : 1 - Math.pow(-2 * t + 2, 3) / 2
easeInOutCubic(t) ==
    IF RLt(t, Half)
    THEN RMul(R(4), RCube(t))
    ELSE RSub(R(1), RMul(RCube(RAdd(RMul(R(-2), t), R(2))), Half))

\* Covers, had the window been open at its end
CoversEndExclusive(effect, time) ==
    time >= effect.startTime /\ time < effect.startTime + effect.duration

\* the predicate of zoomEffects.find
Covers(effect, time) ==
    time >= effect.startTime /\ time <= effect.startTime + effect.duration

\* zoomEffects.find(...): the first covering effect, or Null
FindActive(effects, time) ==
    IF \E i \in 1..Len(effects) : Covers(effects[i], time)
    THEN LET i == CHOOSE k \in 1..Len(effects) :
                     /\ Covers(effects[k], time)
                     /\ \A j \in 1..(k - 1) : ~Covers(effects[j], time)
         IN  effects[i]
    ELSE Null

\* activeEffect.zoomStyle || 'in-out'
StyleOf(effect) == IF effect.zoomStyle = "" THEN "in-out" ELSE effect.zoomStyle

\* ZoomProgress, had the second half of in-out not been mirrored
ZoomProgressNoMirror(style, progress) ==
    IF style = "in-out"
    THEN easeInOutCubic(RMul(progress, R(2)))
    ELSE IF style = "in-only" THEN easeInOutCubic(progress)
    ELSE IF style = "out-only" THEN easeInOutCubic(RSub(R(1), progress))
    ELSE R(0)

\* ZoomProgress, had in-only and out-only been taken for each other
ZoomProgressStylesSwapped(style, progress) ==
    IF style = "in-out"
    THEN IF RLt(progress, Half)
         THEN easeInOutCubic(RMul(progress, R(2)))
         ELSE easeInOutCubic(RMul(RSub(R(1), progress), R(2)))
    ELSE IF style = "in-only" THEN easeInOutCubic(RSub(R(1), progress))
    ELSE IF style = "out-only" THEN easeInOutCubic(progress)
    ELSE R(0)

ZoomProgress(style, progress) ==
    IF style = "in-out"
    THEN IF RLt(progress, Half)
         THEN easeInOutCubic(RMul(progress, R(2)))
         ELSE easeInOutCubic(RMul(RSub(R(1), progress), R(2)))
    ELSE IF style = "in-only" THEN easeInOutCubic(progress)
    ELSE IF style = "out-only" THEN easeInOutCubic(RSub(R(1), progress))
    ELSE R(0)

\* IdentityParams, had the no-effect result been flagged active
IdentityParamsActive ==
    [zoom |-> R(1), centerX |-> Half, centerY |-> Half, isActive |-> TRUE]

IdentityParams ==
    [zoom |-> R(1), centerX |-> Half, centerY |-> Half, isActive |-> FALSE]

calculateZoomParameters(effects, time) ==
    LET activeEffect == FindActive(effects, time)
    IN  IF activeEffect = Null THEN IdentityParams
        ELSE LET progress == Rat(time - activeEffect.startTime, activeEffect.duration)
                 zoomProgress == ZoomProgress(StyleOf(activeEffect), progress)
             IN  [zoom     |-> RAdd(R(1), RMul(RSub(activeEffect.level, R(1)), zoomProgress)),
                  centerX  |-> activeEffect.centerX,
                  centerY  |-> activeEffect.centerY,
                  isActive |-> TRUE]

\* Blend, had current and previous been swapped
BlendSwapped(cur, prev, factor) == RAdd(cur, RMul(RSub(prev, cur), factor))

\* Blend, had the step been taken from the target onwards
BlendOvershoot(cur, prev, factor) == RAdd(cur, RMul(RSub(cur, prev), factor))

\* previous.f + (current.f - previous.f) * factor
Blend(cur, prev, factor) == RAdd(prev, RMul(RSub(cur, prev), factor))

\* interpolateZoomState, had the first frame been blended from the identity
interpolateZoomStateFromIdentity(current, previous, factor) ==
    LET from == IF previous = Null
                THEN [zoom |-> R(1), centerX |-> Half, centerY |-> Half]
                ELSE previous
    IN  [zoom    |-> Blend(current.zoom, from.zoom, factor),
         centerX |-> Blend(current.centerX, from.centerX, factor),
         centerY |-> Blend(current.centerY, from.centerY, factor)]

interpolateZoomState(current, previous, factor) ==
    IF previous = Null THEN current
    ELSE [zoom    |-> Blend(current.zoom, previous.zoom, factor),
          centerX |-> Blend(current.centerX, previous.centerX, factor),
          centerY |-> Blend(current.centerY, previous.centerY, factor)]

\* the scrub threshold 0.1 s, in hundredths of a second
JumpThreshold == 10
ScrubFactor == Rat(8, 10)
PlaybackFactor == Rat(3, 10)

\* InterpolationFactor, had the comparison been >=
InterpolationFactorInclusive(videoTimeDelta) ==
    IF Abs(videoTimeDelta) >= JumpThreshold THEN ScrubFactor ELSE PlaybackFactor

\* Math.abs(videoTimeDelta) > 0.1 ? 0.8 : 0.3
InterpolationFactor(videoTimeDelta) ==
    IF Abs(videoTimeDelta) > JumpThreshold THEN ScrubFactor ELSE PlaybackFactor

\* Draw, had it chosen the transform by the smoothed zoom
DrawBySmoothedZoom(currentParams, smoothedParams, time) ==
    IF smoothedParams.zoom # R(1)
    THEN [op    |-> "zoom",
          tx    |-> RMul(smoothedParams.centerX, R(canvasSize.width)),
          ty    |-> RMul(smoothedParams.centerY, R(canvasSize.height)),
          scale |-> smoothedParams.zoom,
          at    |-> time]
    ELSE [op |-> "identity", at |-> time]

\* what renderFrame puts on the canvas
Draw(currentParams, smoothedParams, time) ==
    IF currentParams.isActive
    THEN [op    |-> "zoom",
          tx    |-> RMul(smoothedParams.centerX, R(canvasSize.width)),
          ty    |-> RMul(smoothedParams.centerY, R(canvasSize.height)),
          scale |-> smoothedParams.zoom,
          at    |-> time]
    ELSE [op |-> "identity", at |-> time]

(***************************************************************************)
(* The host's frame scheduler                                              *)
(***************************************************************************)
\* requestAnimationFrame(renderFrame): the callback closes over the effect
\* run's zoomEffects.  History kept with the callback: torn, its effect run
\* was cleaned up; first, its effect run has not composited a frame yet.
Scheduled(handle, effects, torn, first) ==
    [id |-> handle, zoomEffects |-> effects, torn |-> torn, first |-> first]

\* cancelAnimationFrame(handle)
CancelAnimationFrame(callbacks, handle) ==
    {cb \in callbacks : cb.id # handle}

\* the callbacks that outlive the cleanup of their effect run
Orphaned(callbacks) ==
    {[cb EXCEPT !.torn = TRUE] : cb \in callbacks}

\* Cleanup, had it left the scheduled callback alone
CleanupNoCancel(callbacks) == Orphaned(callbacks)

\* the cleanup function of the render effect
Cleanup(callbacks) ==
    IF animationRef # 0
    THEN Orphaned(CancelAnimationFrame(callbacks, animationRef))
    ELSE Orphaned(callbacks)

\* videoRef.current / canvasRef.current: attached while the component is mounted
videoRef == mounted
canvasRef == mounted

NoFrame == [kind |-> "none"]
Blank == [op |-> "blank"]

(***************************************************************************)
(* Operations                                                              *)
(***************************************************************************)
\* ArmLoop, had it not kept the handle of the first callback
ArmLoopHandleLost(effects, callbacks, gotContext) ==
    /\ nextHandle < MaxHandle
    /\ contextRef' = gotContext
    /\ nextHandle' = nextHandle + 1
    /\ animationRef' = animationRef
    /\ pending' = callbacks \cup {Scheduled(nextHandle + 1, effects, FALSE, TRUE)}

\* the body of the render effect: take the context, start the loop
ArmLoop(effects, callbacks, gotContext) ==
    /\ nextHandle < MaxHandle
    /\ contextRef' = gotContext
    /\ nextHandle' = nextHandle + 1
    /\ animationRef' = nextHandle + 1
    /\ pending' = callbacks \cup {Scheduled(nextHandle + 1, effects, FALSE, TRUE)}

\* first render of a VideoPreview: fresh refs, fresh video element
Mount(effects, gotContext) ==
    /\ ~mounted
    /\ mounted' = TRUE
    /\ zoomEffects' = effects
    /\ videoTime' = 0
    /\ paused' = TRUE
    /\ lastTimeRef' = 0
    /\ lastVideoTimeRef' = 0
    /\ frameCountRef' = 0
    /\ renderStats' = 0
    /\ prevZoomStateRef' = Null
    /\ canvas' = Blank
    /\ frame' = NoFrame
    /\ ArmLoop(effects, pending, gotContext)
    /\ UNCHANGED <<clock, probe,
                   editor, timeline>>

\* Restart, had the effect body cleared the smoothing state
RestartWithReset(effects) ==
    /\ mounted
    /\ zoomEffects' = effects
    /\ prevZoomStateRef' = Null
    /\ ArmLoop(effects, Cleanup(pending), contextRef)
    /\ UNCHANGED <<mounted, videoTime, paused, clock, lastTimeRef, lastVideoTimeRef,
                   frameCountRef, renderStats, canvas, frame, probe,
                   editor, timeline>>

\* the editor hands over a new zoomEffects array: cleanup, then the effect
\* again; getContext on the same canvas answers as it did at the mount
Restart(effects) ==
    /\ mounted
    /\ zoomEffects' = effects
    /\ ArmLoop(effects, Cleanup(pending), contextRef)
    /\ UNCHANGED <<mounted, videoTime, paused, clock, lastTimeRef, lastVideoTimeRef,
                   frameCountRef, renderStats, prevZoomStateRef, canvas, frame, probe,
                   editor, timeline>>

\* the component goes away: the cleanup runs, then the instance, its refs,
\* its canvas and its video element are discarded
Unmount ==
    /\ mounted
    /\ mounted' = FALSE
    /\ pending' = Cleanup(pending)
    /\ zoomEffects' = <<>>
    /\ videoTime' = 0
    /\ paused' = TRUE
    /\ contextRef' = FALSE
    /\ animationRef' = 0
    /\ lastTimeRef' = 0
    /\ lastVideoTimeRef' = 0
    /\ frameCountRef' = 0
    /\ renderStats' = 0
    /\ prevZoomStateRef' = Null
    /\ canvas' = Blank
    /\ frame' = NoFrame
    /\ UNCHANGED <<nextHandle, clock, probe,
                   editor, timeline>>

\* Reschedule, had the not-ready path returned without a new request
RescheduleNoPoll(callbacks, cb, notReady) ==
    IF notReady
    THEN callbacks \ {cb}
    ELSE (callbacks \ {cb})
            \cup {Scheduled(nextHandle + 1, cb.zoomEffects, cb.torn, FALSE)}

\* the requestAnimationFrame(renderFrame) that ends a run of renderFrame, on
\* the not-ready path (line 165) and after compositing (line 223)
Reschedule(callbacks, cb, notReady) ==
    IF notReady
    THEN (callbacks \ {cb})
            \cup {Scheduled(nextHandle + 1, cb.zoomEffects, cb.torn, cb.first)}
    ELSE (callbacks \ {cb})
            \cup {Scheduled(nextHandle + 1, cb.zoomEffects, cb.torn, FALSE)}

\* !video || !canvas || !ctx
NotReady == ~videoRef \/ ~canvasRef \/ ~contextRef

\* renderFrame, had it counted the frame before testing video, canvas and
\* context
RenderFrameCountsSkipped(cb) ==
    /\ cb \in pending
    /\ nextHandle < MaxHandle
    /\ clock' = clock + 1
    /\ nextHandle' = nextHandle + 1
    /\ animationRef' = nextHandle + 1
    /\ pending' = Reschedule(pending, cb, NotReady)
    /\ frameCountRef' = frameCountRef + 1
    /\ IF NotReady
       THEN /\ frame' = [kind |-> "skipped", torn |-> cb.torn, first |-> cb.first]
            /\ UNCHANGED <<lastTimeRef, lastVideoTimeRef, prevZoomStateRef, canvas>>
       ELSE LET videoTimeDelta == videoTime - lastVideoTimeRef
                currentParams == calculateZoomParameters(cb.zoomEffects, videoTime)
                interpolationFactor == InterpolationFactor(videoTimeDelta)
                smoothedParams == interpolateZoomState(currentParams, prevZoomStateRef,
                                                       interpolationFactor)
            IN  /\ lastTimeRef' = clock + 1
                /\ lastVideoTimeRef' = videoTime
                /\ prevZoomStateRef' = smoothedParams
                /\ canvas' = Draw(currentParams, smoothedParams, videoTime)
                /\ frame' = [kind |-> "composited", torn |-> cb.torn,
                             first |-> cb.first,
                             videoTimeDelta |-> videoTimeDelta,
                             target |-> currentParams,
                             factor |-> interpolationFactor]
    /\ UNCHANGED <<mounted, zoomEffects, videoTime, paused, contextRef, renderStats, probe,
                   editor, timeline>>

\* renderFrame(timestamp), run by the host for one scheduled callback
RenderFrame(cb) ==
    /\ cb \in pending
    /\ nextHandle < MaxHandle
    /\ clock' = clock + 1
    /\ nextHandle' = nextHandle + 1
    /\ animationRef' = nextHandle + 1
    /\ pending' = Reschedule(pending, cb, NotReady)
    /\ IF NotReady
       THEN /\ frame' = [kind |-> "skipped", torn |-> cb.torn, first |-> cb.first]
            /\ UNCHANGED <<lastTimeRef, lastVideoTimeRef, prevZoomStateRef,
                           canvas, frameCountRef>>
       ELSE LET videoTimeDelta == videoTime - lastVideoTimeRef
                currentParams == calculateZoomParameters(cb.zoomEffects, videoTime)
                interpolationFactor == InterpolationFactor(videoTimeDelta)
                smoothedParams == interpolateZoomState(currentParams, prevZoomStateRef,
                                                       interpolationFactor)
            IN  /\ lastTimeRef' = clock + 1
                /\ lastVideoTimeRef' = videoTime
                /\ prevZoomStateRef' = smoothedParams
                /\ canvas' = Draw(currentParams, smoothedParams, videoTime)
                /\ frameCountRef' = frameCountRef + 1
                /\ frame' = [kind |-> "composited", torn |-> cb.torn,
                             first |-> cb.first,
                             videoTimeDelta |-> videoTimeDelta,
                             target |-> currentParams,
                             factor |-> interpolationFactor]
    /\ UNCHANGED <<mounted, zoomEffects, videoTime, paused, contextRef, renderStats, probe,
                   editor, timeline>>

\* the one-second stats interval
StatsInterval ==
    /\ mounted
    /\ renderStats' = frameCountRef
    /\ frameCountRef' = 0
    /\ UNCHANGED <<mounted, zoomEffects, videoTime, paused, contextRef, animationRef,
                   pending, nextHandle, clock, lastTimeRef, lastVideoTimeRef,
                   prevZoomStateRef, canvas, frame, probe,
                   editor, timeline>>

\* VideoEditor's handlePlayPause.  The editor hands it to no child and
\* draws no element that calls it, so it is not among the steps of Next.
handlePlayPause ==
    /\ videoRef
    /\ paused' = editor.isPlaying
    /\ editor' = [editor EXCEPT !.isPlaying = ~editor.isPlaying]
    /\ UNCHANGED <<mounted, zoomEffects, videoTime, contextRef, animationRef,
                   pending, nextHandle, clock, lastTimeRef, lastVideoTimeRef,
                   frameCountRef, renderStats, prevZoomStateRef, canvas, frame, probe,
                   timeline>>

\* the preview's button, had it been wired to the editor's handlePlayPause
togglePlayPauseViaEditor == handlePlayPause

\* the icon on the preview's play/pause button
PlayPauseIcon == IF editor.isPlaying THEN "Pause" ELSE "Play"

\* the preview's play/pause button
togglePlayPause ==
    /\ mounted
    /\ paused' = ~paused
    /\ UNCHANGED <<mounted, zoomEffects, videoTime, contextRef, animationRef,
                   pending, nextHandle, clock, lastTimeRef, lastVideoTimeRef,
                   frameCountRef, renderStats, prevZoomStateRef, canvas, frame, probe,
                   editor, timeline>>

\* the seek slider: video.currentTime = seekTime
handleSeek(seekTime) ==
    /\ mounted
    /\ seekTime # videoTime
    /\ videoTime' = seekTime
    /\ UNCHANGED <<mounted, zoomEffects, paused, contextRef, animationRef,
                   pending, nextHandle, clock, lastTimeRef, lastVideoTimeRef,
                   frameCountRef, renderStats, prevZoomStateRef, canvas, frame, probe,
                   editor, timeline>>

\* the video element plays: its clock moves forward
Playback(time) ==
    /\ mounted
    /\ ~paused
    /\ time > videoTime
    /\ \A t \in Times : ~(videoTime < t /\ t < time)
    /\ videoTime' = time
    /\ UNCHANGED <<mounted, zoomEffects, paused, contextRef, animationRef,
                   pending, nextHandle, clock, lastTimeRef, lastVideoTimeRef,
                   frameCountRef, renderStats, prevZoomStateRef, canvas, frame, probe,
                   editor, timeline>>

NoProbe == [op |-> "none"]

(***************************************************************************)
(* The editing layer: VideoEditor and its Timeline and ZoomControls        *)
(***************************************************************************)
\* VideoEditor's useState cells (video-editor.tsx 15-20).  currentTime is
\* left out: it only places the timeline's time indicator.  edits counts the
\* changes made to the collection so far; an added effect takes its id from
\* it, as the code takes it from Date.now().
EditorInit ==
    [videoSrc       |-> FALSE,
     videoDuration  |-> R(0),
     isPlaying      |-> FALSE,
     zoomEffects    |-> <<>>,
     selectedEffect |-> Null,
     edits          |-> 0]

\* Timeline's useState cells (timeline.tsx 29-31).  Effect ids count from
\* 1; draggedEffect 0 and draggedEdge "null" stand for null.
TimelineInit ==
    [isDragging |-> FALSE, draggedEffect |-> 0, draggedEdge |-> "null"]

\* In the editing layer times are exact rationals in hundredths of a second
\* (dragging a whole effect halves its duration), positions are pixels from
\* the timeline's left edge.

\* the collection is changed at most MaxEdits times in a behaviour
MaxEdits == 4

\* timelineRef.current.clientWidth
timelineWidth == 800

\* videoRef.current.duration of the uploaded video: 10 s
VideoLengths == { R(1000) }

\* where the pointer is: the left edge, the middle, 9 s, the right edge, and
\* 11 s, which lies beyond the right edge
Positions == { 0, 400, 720, 800, 880 }

\* the values the duration slider hands over: its minimum and its maximum
SliderDurations == { R(50), R(1000) }

DraggedEdges == { "start", "end", "null" }

\* a / b for b > 0
RDiv(a, b) == Rat(a.n * b.d, a.d * b.n)

MathMax(a, b) == IF RLt(a, b) THEN b ELSE a
MathMin(a, b) == IF RLt(b, a) THEN b ELSE a

timeToPosition(time) ==
    RMul(RDiv(time, editor.videoDuration), R(timelineWidth))

positionToTime(position) ==
    RMul(Rat(position, timelineWidth), editor.videoDuration)

\* the effect's box on the timeline spans the position
OverEffect(effect, position) ==
    /\ RLeq(timeToPosition(effect.startTime), R(position))
    /\ RLeq(R(position), timeToPosition(RAdd(effect.startTime, effect.duration)))

\* The timeline's handlers see the pointer when it is over the timeline's
\* box or over one of its children; an effect's box is not clipped and may
\* reach beyond the right edge.
OverTimeline(position) ==
    \/ 0 <= position /\ position < timelineWidth
    \/ \E i \in 1..Len(editor.zoomEffects) :
            OverEffect(editor.zoomEffects[i], position)

\* zoomEffects.find(...): the first effect that satisfies the test, or Null
\* hits holds the indexes of the effects that satisfy the test
Find(effects, hits) ==
    IF hits = {} THEN Null
    ELSE effects[CHOOSE i \in hits : \A j \in hits : i <= j]

\* addZoomEffect(startTime): the editor's state after it
addZoomEffect(startTime) ==
    LET newEffect == Effect(editor.edits + 1, startTime, R(300), Rat(3, 2),
                            Half, Half, "in-out")
    IN  [editor EXCEPT !.zoomEffects = Append(@, newEffect),
                       !.selectedEffect = newEffect,
                       !.edits = @ + 1]

\* updateZoomEffect(updatedEffect): the editor's state after it
updateZoomEffect(updatedEffect) ==
    [editor EXCEPT
        !.zoomEffects = [i \in 1..Len(@) |->
                            IF @[i].id = updatedEffect.id THEN updatedEffect
                            ELSE @[i]],
        !.selectedEffect = updatedEffect,
        !.edits = @ + 1]

\* deleteZoomEffect(effectId): the editor's state after it
deleteZoomEffect(effectId) ==
    [editor EXCEPT
        !.zoomEffects = SelectSeq(@, LAMBDA effect : effect.id # effectId),
        !.selectedEffect = IF @ # Null /\ @.id = effectId THEN Null ELSE @,
        !.edits = @ + 1]

\* the upload form hands over a file
handleVideoUpload ==
    /\ ~editor.videoSrc
    /\ editor' = [editor EXCEPT !.videoSrc = TRUE]
    /\ UNCHANGED <<loopVars, probe, timeline>>

\* the preview's video element has loaded its metadata
handleVideoLoad(length) ==
    /\ editor.videoSrc
    /\ editor.videoDuration # length
    /\ editor' = [editor EXCEPT !.videoDuration = length]
    /\ UNCHANGED <<loopVars, probe, timeline>>

\* the timeline is drawn, over a video of known length
TimelineReady == editor.videoSrc /\ RLt(R(0), editor.videoDuration)

\* a click on the timeline selects the effect under the pointer or adds one
handleTimelineClick(clickPosition) ==
    /\ TimelineReady
    /\ OverTimeline(clickPosition)
    /\ LET clickTime == positionToTime(clickPosition)
           clicked == { i \in 1..Len(editor.zoomEffects) :
                           OverEffect(editor.zoomEffects[i], clickPosition) }
           clickedEffect == Find(editor.zoomEffects, clicked)
       IN  IF clickedEffect # Null
           THEN editor' = [editor EXCEPT !.selectedEffect = clickedEffect]
           ELSE /\ editor.edits < MaxEdits
                /\ editor' = addZoomEffect(clickTime)
    /\ UNCHANGED <<loopVars, probe, timeline>>

\* the mouse goes down on an effect's box (edge "null") or on one of its two
\* handles
handleEffectMouseDown(effectId, edge) ==
    /\ TimelineReady
    /\ ~timeline.isDragging
    /\ \E i \in 1..Len(editor.zoomEffects) : editor.zoomEffects[i].id = effectId
    /\ timeline' = [isDragging |-> TRUE, draggedEffect |-> effectId,
                    draggedEdge |-> edge]
    /\ LET dragged == { i \in 1..Len(editor.zoomEffects) :
                           editor.zoomEffects[i].id = effectId }
       IN  editor' = [editor EXCEPT
                        !.selectedEffect = Find(editor.zoomEffects, dragged)]
    /\ UNCHANGED <<loopVars, probe>>

\* the pointer moves over the timeline during a drag (a move that the
\* handler's throttle drops changes nothing)
handleMouseMove(mousePosition) ==
    /\ TimelineReady
    /\ timeline.isDragging
    /\ timeline.draggedEffect # 0
    /\ OverTimeline(mousePosition)
    /\ editor.edits < MaxEdits
    /\ LET mouseTime == positionToTime(mousePosition)
           duration == editor.videoDuration
           dragged == { i \in 1..Len(editor.zoomEffects) :
                           editor.zoomEffects[i].id = timeline.draggedEffect }
           effect == Find(editor.zoomEffects, dragged)
       IN  /\ effect # Null
           /\ IF timeline.draggedEdge = "start"
              THEN LET newStartTime ==
                           MathMax(R(0),
                                   MathMin(mouseTime,
                                           RSub(RAdd(effect.startTime, effect.duration),
                                                R(50))))
                   IN  editor' = updateZoomEffect(
                           [effect EXCEPT
                               !.duration = RSub(RAdd(effect.startTime, effect.duration),
                                                 newStartTime),
                               !.startTime = newStartTime])
              ELSE IF timeline.draggedEdge = "end"
              THEN LET newDuration ==
                           MathMax(R(50), RSub(mouseTime, effect.startTime))
                   IN  editor' = updateZoomEffect(
                           [effect EXCEPT
                               !.duration = MathMin(newDuration,
                                                    RSub(duration, effect.startTime))])
              ELSE LET newStartTime ==
                           MathMax(R(0),
                                   MathMin(RSub(mouseTime, RMul(effect.duration, Half)),
                                           RSub(duration, effect.duration)))
                   IN  editor' = updateZoomEffect(
                           [effect EXCEPT !.startTime = newStartTime])
    /\ UNCHANGED <<loopVars, probe, timeline>>

\* the mouse goes up anywhere in the document
handleMouseUp ==
    /\ timeline.isDragging
    /\ timeline' = TimelineInit
    /\ UNCHANGED <<loopVars, probe, editor>>

\* the duration slider of the zoom controls, shown for the selected effect
handleDurationChange(value) ==
    /\ editor.selectedEffect # Null
    /\ editor.selectedEffect.duration # value
    /\ editor.edits < MaxEdits
    /\ editor' = updateZoomEffect([editor.selectedEffect EXCEPT !.duration = value])
    /\ UNCHANGED <<loopVars, probe, timeline>>

\* the delete button of the zoom controls
handleDelete ==
    /\ editor.selectedEffect # Null
    /\ editor.edits < MaxEdits
    /\ editor' = deleteZoomEffect(editor.selectedEffect.id)
    /\ UNCHANGED <<loopVars, probe, timeline>>

LoopInit ==
    /\ mounted = FALSE
    /\ zoomEffects = <<>>
    /\ videoTime = 0
    /\ paused = TRUE
    /\ contextRef = FALSE
    /\ animationRef = 0
    /\ pending = {}
    /\ nextHandle = 0
    /\ clock = 0
    /\ lastTimeRef = 0
    /\ lastVideoTimeRef = 0
    /\ frameCountRef = 0
    /\ renderStats = 0
    /\ prevZoomStateRef = Null
    /\ canvas = Blank
    /\ frame = NoFrame

Init ==
    /\ LoopInit
    /\ probe = NoProbe
    /\ editor = EditorInit
    /\ timeline = TimelineInit

(***************************************************************************)
(* Direct calls of the pure helpers                                        *)
(***************************************************************************)
\* the longest collection handed to a direct call
MaxEffects == 2

ProbeWindows == { <<200, 400>>, <<400, 50>> }
ProbeLevels == { R(1), Rat(3, 2), R(2), R(3) }
ProbeStyles == { "", "in-out", "in-only", "out-only" }
ProbeTimes == { 0, 199, 200, 300, 400, 425, 450, 500, 600, 601 }

\* the centre is tied to the window, so that two windows' effects differ in it
ProbeEffects ==
    { Effect("e", w[1], w[2], l,
             IF w[1] = 200 THEN Half ELSE Rat(1, 4),
             IF w[1] = 200 THEN Half ELSE Rat(3, 4), st) :
        w \in ProbeWindows, l \in ProbeLevels, st \in ProbeStyles }

ProbeCollections ==
    UNION { [1..n -> ProbeEffects] : n \in 0..MaxEffects }

ProbeZoomStates ==
    [zoom : {R(1), Rat(3, 2), R(2)},
     centerX : {R(0), Rat(1, 4), R(1)},
     centerY : {Half, Rat(3, 4)}]

ProbeFactors == { R(0), PlaybackFactor, ScrubFactor, R(1) }

CalculateCalls ==
    [op : {"calculate"}, effects : ProbeCollections, time : ProbeTimes, done : {FALSE}]

InterpolateCalls ==
    [op : {"interpolate"}, current : ProbeZoomStates,
     previous : ProbeZoomStates \cup {Null}, factor : ProbeFactors, done : {FALSE}]

\* one effect resolved at two times of which the first is not the later
CalculatePairCalls ==
    { c \in [op : {"calculatePair"}, effect : ProbeEffects,
             time1 : ProbeTimes, time2 : ProbeTimes, done : {FALSE}] :
        c.time1 <= c.time2 }

\* calculateZoomParameters(time) over the closure's zoomEffects
CallCalculate ==
    /\ probe.op = "calculate"
    /\ ~probe.done
    /\ probe' = [op |-> "calculate", effects |-> probe.effects, time |-> probe.time,
                 done |-> TRUE,
                 activeEffect |-> FindActive(probe.effects, probe.time),
                 out |-> calculateZoomParameters(probe.effects, probe.time)]
    /\ UNCHANGED <<loopVars, editor, timeline>>

\* interpolateZoomState(current, previous, factor)
CallInterpolate ==
    /\ probe.op = "interpolate"
    /\ ~probe.done
    /\ probe' = [op |-> "interpolate", current |-> probe.current,
                 previous |-> probe.previous, factor |-> probe.factor,
                 done |-> TRUE,
                 out |-> interpolateZoomState(probe.current, probe.previous,
                                              probe.factor)]
    /\ UNCHANGED <<loopVars, editor, timeline>>

\* calculateZoomParameters(time1), then calculateZoomParameters(time2), over
\* a collection of one effect
CallCalculatePair ==
    /\ probe.op = "calculatePair"
    /\ ~probe.done
    /\ probe' = [op |-> "calculatePair", effect |-> probe.effect,
                 time1 |-> probe.time1, time2 |-> probe.time2,
                 done |-> TRUE,
                 out1 |-> calculateZoomParameters(<<probe.effect>>, probe.time1),
                 out2 |-> calculateZoomParameters(<<probe.effect>>, probe.time2)]
    /\ UNCHANGED <<loopVars, editor, timeline>>

PureInit ==
    /\ LoopInit
    /\ editor = EditorInit
    /\ timeline = TimelineInit
    /\ probe \in CalculateCalls \cup InterpolateCalls \cup CalculatePairCalls

PureNext == CallCalculate \/ CallInterpolate \/ CallCalculatePair

SpecPure == PureInit /\ [][PureNext]_vars

Next ==
    \/ \E c \in Collections, g \in BOOLEAN : Mount(c, g)
    \/ \E c \in Collections : Restart(c)
    \/ Unmount
    \/ \E cb \in pending : RenderFrame(cb)
    \/ StatsInterval
    \/ togglePlayPause
    \/ \E t \in Times : handleSeek(t)
    \/ \E t \in Times : Playback(t)

Spec == Init /\ [][Next]_vars

EditorNext ==
    \/ handleVideoUpload
    \/ \E length \in VideoLengths : handleVideoLoad(length)
    \/ \E p \in Positions : handleTimelineClick(p)
    \/ \E id \in 1..MaxEdits, edge \in DraggedEdges : handleEffectMouseDown(id, edge)
    \/ \E p \in Positions : handleMouseMove(p)
    \/ handleMouseUp
    \/ \E value \in SliderDurations : handleDurationChange(value)
    \/ handleDelete

\* the editing layer alone, the preview left as it starts
SpecEditor == Init /\ [][EditorNext]_vars

(***************************************************************************)
(* Properties of the render loop                                           *)
(***************************************************************************)
\* a run of renderFrame is the only step that moves the frame clock
FrameRan == clock' # clock
Composited == FrameRan /\ frame'.kind = "composited"
\* a dependency change: the loop is re-armed without a mount and without a frame
Rearmed == mounted /\ mounted' /\ nextHandle' # nextHandle /\ clock' = clock

SameZoomState(a, b) ==
    a.zoom = b.zoom /\ a.centerX = b.centerX /\ a.centerY = b.centerY

C2_NoTickAfterTeardown ==
    /\ \A cb \in pending : ~cb.torn
    /\ frame.kind # "none" => ~frame.torn

\* unmounted after the loop ran two frames: the cleanup cancelled the callback
\* that was scheduled, and nothing is left to fire
C2_Witness ==
    /\ ~mounted
    /\ nextHandle >= 3
    /\ clock >= 2
    /\ pending = {}

\* C3: at most one callback is scheduled, and animationRef holds its handle.
C3_SingleTickInFlight ==
    /\ Cardinality(pending) <= 1
    /\ \A cb \in pending : cb.id = animationRef

\* a loop re-armed by a dependency change, running, with its one callback
C3_Witness ==
    /\ mounted
    /\ frame.kind = "composited"
    /\ ~frame.first
    /\ zoomEffects # <<>>
    /\ nextHandle >= 4
    /\ Cardinality(pending) = 1

\* C4: while mounted, one callback is always scheduled, and every run of
\* renderFrame, ready or not, playing or paused, replaces the callback it
\* ran by exactly one new one.
C4_LoopKeepsRunning ==
    /\ [](mounted => Cardinality(pending) = 1)
    /\ [][ FrameRan =>
             /\ Cardinality(pending') = Cardinality(pending)
             /\ Cardinality(pending' \ pending) = 1
             /\ \A cb \in pending' \ pending : cb.id = nextHandle' /\ cb.id > nextHandle
         ]_vars

\* a not-ready run while the video plays, with the next callback scheduled
C4_Witness ==
    /\ mounted
    /\ ~paused
    /\ frame.kind = "skipped"
    /\ clock >= 2
    /\ Cardinality(pending) = 1

\* C5: on every compositing frame the factor is 0.8 exactly when the video
\* clock moved by more than 0.1 s, either way, since the last compositing
\* frame, and 0.3 otherwise (a move of exactly 0.1 s included).
C5_FactorByClockJump ==
    [][ Composited =>
          frame'.factor =
              IF videoTime - lastVideoTimeRef > 10 \/ lastVideoTimeRef - videoTime > 10
              THEN Rat(8, 10) ELSE Rat(3, 10)
      ]_vars

\* a compositing frame whose clock moved back by exactly 0.1 s used 0.3
C5_Witness ==
    /\ frame.kind = "composited"
    /\ frame.videoTimeDelta = -10
    /\ frame.factor = Rat(3, 10)

\* C6: a compositing frame draws through translate(centre) scale(zoom)
\* translate(-centre) of the smoothed state exactly when the resolved target
\* is active, and with the identity transform otherwise.
C6_TransformByTargetActive ==
    [][ Composited =>
          IF frame'.target.isActive
          THEN /\ canvas'.op = "zoom"
               /\ canvas'.scale = prevZoomStateRef'.zoom
               /\ canvas'.tx = RMul(prevZoomStateRef'.centerX, R(canvasSize.width))
               /\ canvas'.ty = RMul(prevZoomStateRef'.centerY, R(canvasSize.height))
          ELSE canvas'.op = "identity"
      ]_vars

\* the target is not active while the smoothed state is still zoomed in:
\* the frame was drawn unscaled
C6_Witness ==
    /\ frame.kind = "composited"
    /\ ~frame.target.isActive
    /\ RLt(R(1), prevZoomStateRef.zoom)
    /\ canvas.op = "identity"

(***************************************************************************)
(* Properties of the pure helpers                                          *)
(***************************************************************************)
Interpolated == probe.op = "interpolate" /\ probe.done
Calculated == probe.op = "calculate" /\ probe.done

\* C7: with no previous state the smoother returns the target's zoom,
\* centerX and centerY unchanged, whatever the factor.
C7_NoPreviousPassesTarget ==
    (Interpolated /\ probe.previous = Null)
        => SameZoomState(probe.out, probe.current)

\* no previous state, factor 0.3, a target away from the identity state
C7_Witness ==
    /\ Interpolated
    /\ probe.previous = Null
    /\ probe.factor = Rat(3, 10)
    /\ probe.current.zoom = R(2)
    /\ probe.current.centerX = R(0)
    /\ probe.out.zoom = R(2)

Between(x, a, b) == (RLeq(a, x) /\ RLeq(x, b)) \/ (RLeq(b, x) /\ RLeq(x, a))

\* field f of the blend is previous.f + (target.f - previous.f) * factor
BlendedField(out, cur, prev, factor) ==
    RSub(out, prev) = RMul(RSub(cur, prev), factor)

\* C8: with a previous state each field is previous + (target - previous) *
\* factor, field by field: factor 1 gives the target, factor 0 the previous
\* state, and 0.3 and 0.8 give a value between the two.
C8_BlendPerField ==
    (Interpolated /\ probe.previous # Null) =>
        /\ BlendedField(probe.out.zoom, probe.current.zoom,
                        probe.previous.zoom, probe.factor)
        /\ BlendedField(probe.out.centerX, probe.current.centerX,
                        probe.previous.centerX, probe.factor)
        /\ BlendedField(probe.out.centerY, probe.current.centerY,
                        probe.previous.centerY, probe.factor)
        /\ probe.factor = R(1) => SameZoomState(probe.out, probe.current)
        /\ probe.factor = R(0) => SameZoomState(probe.out, probe.previous)
        /\ probe.factor \in {Rat(3, 10), Rat(8, 10)} =>
              /\ Between(probe.out.zoom, probe.previous.zoom, probe.current.zoom)
              /\ Between(probe.out.centerX, probe.previous.centerX, probe.current.centerX)
              /\ Between(probe.out.centerY, probe.previous.centerY, probe.current.centerY)

\* a blend by 0.8 that moves zoom up, centerX down and leaves centerY
C8_Witness ==
    /\ Interpolated
    /\ probe.factor = Rat(8, 10)
    /\ probe.previous # Null
    /\ probe.previous.zoom = R(1) /\ probe.current.zoom = R(2)
    /\ probe.previous.centerX = R(1) /\ probe.current.centerX = R(0)
    /\ probe.previous.centerY = probe.current.centerY
    /\ probe.out.zoom = Rat(9, 5)
    /\ probe.out.centerX = Rat(1, 5)

\* startTime <= t <= startTime + duration
InWindow(effect, t) ==
    effect.startTime <= t /\ t <= effect.startTime + effect.duration

\* C9: the lookup returns the first effect, in collection order, whose window
\* holds the time, both ends included, and none when no window holds it.
C9_FirstCoveringEffect ==
    Calculated =>
        LET covering == {i \in 1..Len(probe.effects) : InWindow(probe.effects[i], probe.time)}
        IN  IF covering = {}
            THEN probe.activeEffect = Null
            ELSE \E i \in covering :
                    /\ \A j \in covering : i <= j
                    /\ probe.activeEffect = probe.effects[i]

\* two different effects both hold the time, which is the very end of the
\* first one's window: the first one is returned
C9_Witness ==
    /\ Calculated
    /\ Len(probe.effects) = 2
    /\ probe.effects[1] # probe.effects[2]
    /\ probe.effects[1].startTime # probe.effects[2].startTime
    /\ InWindow(probe.effects[2], probe.time)
    /\ probe.time = probe.effects[1].startTime + probe.effects[1].duration
    /\ probe.activeEffect = probe.effects[1]

\* C10: an active effect of style in-out, or of no style, resolves to zoom 1
\* at the start and at the end of its window and to its level at the middle.
C10_InOutEndsAndPeak ==
    (Calculated /\ probe.activeEffect # Null
        /\ probe.activeEffect.zoomStyle \in {"", "in-out"}) =>
        LET e == probe.activeEffect
        IN  /\ probe.time = e.startTime => probe.out.zoom = R(1)
            /\ probe.time = e.startTime + e.duration => probe.out.zoom = R(1)
            /\ 2 * (probe.time - e.startTime) = e.duration => probe.out.zoom = e.level

\* effect {start 2, duration 4, level 2, in-out} at time 4 resolves to zoom 2
C10_Witness ==
    /\ Calculated
    /\ probe.effects = <<Effect("e", 200, 400, R(2), Half, Half, "in-out")>>
    /\ probe.time = 400
    /\ probe.out.zoom = R(2)
    /\ probe.out.isActive

PairCalculated == probe.op = "calculatePair" /\ probe.done

\* C11: an in-only effect of level >= 1 resolves to zoom 1 at the start of its
\* window and to its level at the end, and of two times in the window the
\* later one never resolves to the smaller zoom.
C11_InOnlyRises ==
    (PairCalculated /\ probe.effect.zoomStyle = "in-only"
        /\ InWindow(probe.effect, probe.time1) /\ InWindow(probe.effect, probe.time2)) =>
        /\ RLeq(probe.out1.zoom, probe.out2.zoom)
        /\ probe.time1 = probe.effect.startTime => probe.out1.zoom = R(1)
        /\ probe.time2 = probe.effect.startTime + probe.effect.duration
              => probe.out2.zoom = probe.effect.level

\* an in-only effect of level 3 at a quarter and at three quarters of its
\* window: the zoom has risen from 1.125 to 2.875
C11_Witness ==
    /\ PairCalculated
    /\ probe.effect = Effect("e", 200, 400, R(3), Half, Half, "in-only")
    /\ probe.time1 = 300
    /\ probe.time2 = 500
    /\ probe.out1.zoom = Rat(9, 8)
    /\ probe.out2.zoom = Rat(23, 8)

\* C12: an out-only effect of level >= 1 resolves to its level at the start
\* of its window and to zoom 1 at the end, and of two times in the window the
\* later one never resolves to the larger zoom.
C12_OutOnlyFalls ==
    (PairCalculated /\ probe.effect.zoomStyle = "out-only"
        /\ InWindow(probe.effect, probe.time1) /\ InWindow(probe.effect, probe.time2)) =>
        /\ RLeq(probe.out2.zoom, probe.out1.zoom)
        /\ probe.time1 = probe.effect.startTime => probe.out1.zoom = probe.effect.level
        /\ probe.time2 = probe.effect.startTime + probe.effect.duration
              => probe.out2.zoom = R(1)

\* an out-only effect of level 3 at its start and at three quarters of its
\* window: the zoom has fallen from 3 to 1.125
C12_Witness ==
    /\ PairCalculated
    /\ probe.effect = Effect("e", 200, 400, R(3), Half, Half, "out-only")
    /\ probe.time1 = 200
    /\ probe.time2 = 500
    /\ probe.out1.zoom = R(3)
    /\ probe.out2.zoom = Rat(9, 8)

(***************************************************************************)
(* Properties of the resolved and of the rendered state in the loop        *)
(***************************************************************************)
\* C13: on every compositing frame whose collection is empty, or holds no
\* effect whose window contains the video time, the resolved target is
\* exactly {zoom 1, centerX 0.5, centerY 0.5, isActive false}.
C13_NoEffectResolvesIdentity ==
    [][ (Composited
            /\ \A i \in 1..Len(zoomEffects) : ~InWindow(zoomEffects[i], videoTime))
          => frame'.target = [zoom |-> R(1), centerX |-> Rat(1, 2),
                              centerY |-> Rat(1, 2), isActive |-> FALSE]
      ]_vars

\* an empty collection, a frame composited at 0.46 s after a jump, while the
\* smoothed state is still zoomed in: the target is the identity state
C13_Witness ==
    /\ frame.kind = "composited"
    /\ zoomEffects = <<>>
    /\ videoTime = 46
    /\ lastVideoTimeRef = 46
    /\ frame.videoTimeDelta # 0
    /\ frame.target = [zoom |-> R(1), centerX |-> Rat(1, 2),
                       centerY |-> Rat(1, 2), isActive |-> FALSE]
    /\ RLt(R(1), prevZoomStateRef.zoom)

RMax(a, b) == IF RLeq(a, b) THEN b ELSE a

\* the largest level of a collection, 1 (no zoom) when it is empty
LargestLevel(effects) ==
    LET levels == {R(1)} \cup {effects[i].level : i \in 1..Len(effects)}
    IN  CHOOSE l \in levels : \A k \in levels : RLeq(k, l)

UnitInterval(x) == RLeq(R(0), x) /\ RLeq(x, R(1))

\* every effect has level >= 1, centres in [0,1] and duration > 0
WellFormed(effects) ==
    \A i \in 1..Len(effects) :
        /\ RLeq(R(1), effects[i].level)
        /\ UnitInterval(effects[i].centerX)
        /\ UnitInterval(effects[i].centerY)
        /\ effects[i].duration > 0

C16_OnlyCompositingWritesPrevious ==
    [][ /\ (mounted /\ mounted' /\ prevZoomStateRef' # prevZoomStateRef)
              => Composited
        /\ Composited =>
              /\ prevZoomStateRef = Null => prevZoomStateRef' = frame'.target
              /\ prevZoomStateRef # Null =>
                    /\ BlendedField(prevZoomStateRef'.zoom, frame'.target.zoom,
                                    prevZoomStateRef.zoom, frame'.factor)
                    /\ BlendedField(prevZoomStateRef'.centerX, frame'.target.centerX,
                                    prevZoomStateRef.centerX, frame'.factor)
                    /\ BlendedField(prevZoomStateRef'.centerY, frame'.target.centerY,
                                    prevZoomStateRef.centerY, frame'.factor)
              /\ frame'.target.isActive =>
                    /\ canvas'.op = "zoom"
                    /\ canvas'.scale = prevZoomStateRef'.zoom
        /\ (FrameRan /\ NotReady) =>
              /\ frame'.kind = "skipped"
              /\ animationRef' # animationRef
              /\ UNCHANGED <<prevZoomStateRef, lastTimeRef, lastVideoTimeRef,
                             frameCountRef, canvas, renderStats, mounted,
                             zoomEffects, videoTime, paused, contextRef>>
      ]_vars

\* a run of renderFrame without a context, after a seek, that left no trace
C16_Witness ==
    /\ mounted
    /\ ~contextRef
    /\ frame.kind = "skipped"
    /\ videoTime # 0
    /\ lastVideoTimeRef = 0
    /\ lastTimeRef = 0
    /\ frameCountRef = 0
    /\ prevZoomStateRef = Null
    /\ canvas = Blank
    /\ animationRef >= 2

\* C17: the editor's isPlaying is false in every reachable state, whether
\* the video plays or not, so the preview's button always shows the play
\* icon.
C17_EditorNeverPlaying ==
    /\ editor.isPlaying = FALSE
    /\ PlayPauseIcon = "Play"

\* the video plays, started by the preview's button, and a frame has been
\* composited past time 0, yet the editor's flag is still false
C17_Witness ==
    /\ mounted
    /\ ~paused
    /\ videoTime > 0
    /\ frame.kind = "composited"
    /\ lastVideoTimeRef = videoTime
    /\ ~editor.isPlaying

\* C15: every effect of the editor's collection has a duration above 0 and
\* a start time of at least 0, whatever was clicked, dragged or set.
C15_DurationPositive ==
    \A i \in 1..Len(editor.zoomEffects) :
        /\ RLt(R(0), editor.zoomEffects[i].duration)
        /\ RLeq(R(0), editor.zoomEffects[i].startTime)

\* an effect dragged to start past the end of the video, then dragged by its
\* end edge, has a negative duration
C15_Witness ==
    \E i \in 1..Len(editor.zoomEffects) :
        /\ RLt(editor.videoDuration, editor.zoomEffects[i].startTime)
        /\ RLt(editor.zoomEffects[i].duration, R(0))
        /\ timeline.draggedEdge = "end"

====
